---- MODULE Spec2Model ----
(***************************************************************************)
(* A model of the COVID dashboard data pipeline: the files of the working  *)
(* directory, the cleaning run of datacleaner.py (DataProcessor), the      *)
(* cleaning step of setup_and_run.py (DashboardOrchestrator), the          *)
(* validators of data_validation_utils.py (DataValidator), the two sample  *)
(* data generators (SampleDataGenerator of create_sample_data.py and       *)
(* create_sample_datasets of setup_and_run.py), the three scripts as       *)
(* processes with an exit status, and the cached load of covidDashboard.py.*)
(*                                                                         *)
(* A CSV file is a record [kind, cols, rows, fmt]: kind is "absent",       *)
(* "garbage" (text that is not well-formed CSV: ParserError from either    *)
(* engine), "empty" (a 0-byte file: EmptyDataError), "csv", or             *)
(* "csv_python" (a file only pandas' python engine parses); cols is the    *)
(* header;                                                                 *)
(* rows the data lines, one cell per column; fmt the float_format the      *)
(* writer was given ("" when none).  A DataFrame is [cols, index, rows]:   *)
(* pandas keeps a row label (index) beside every row, and aligns on it.    *)
(*                                                                         *)
(* Cells of the input tables are integers; NA is the missing cell (an      *)
(* empty CSV field, NaN after read_csv).  STR is a cell holding text that  *)
(* is neither a number nor a date.  A standardized cell is the exact       *)
(* value num / sqrt(den2), kept as the record [num, den2]; NaN is the      *)
(* missing standardized cell.                                              *)
(***************************************************************************)
EXTENDS Integers, Sequences, FiniteSets, TLC

VARIABLES fs, unwritable, run, merged_data, cleaned_data, final_dataset,
          config, verdict,
          date_range, np_random, generator, generated,
          main_dashboard, exit_status, dashboard, launched

vars == <<fs, unwritable, run, merged_data, cleaned_data, final_dataset,
          config, verdict,
          date_range, np_random, generator, generated,
          main_dashboard, exit_status, dashboard, launched>>

\* the state of the sample data generators, and of the dashboard session
samplerVars == <<date_range, np_random, generator, generated>>
dashboardVars == <<main_dashboard, dashboard, launched>>

----------------------------------------------------------------------------
(* Bounds of the model *)

\* dates are 1..MaxDate; a table has at most one row per date
MaxDate == 3
\* feature cells are 0..MaxVal, or missing
MaxVal == 1
\* the generated date range is at most MaxDays days
MaxDays == 3
\* at most MaxCalls generations of sample data in one process
MaxCalls == 3
\* at most MaxRequests requests of the dashboard's load in one process
MaxRequests == 3
\* at most MaxLaunched runs of setup_and_run.py wait for their dashboard at once
MaxLaunched == 1

----------------------------------------------------------------------------
(* Cells *)

NA == -1
STR == -2
NaN == [num |-> 0, den2 |-> 0]

Dates == 1..MaxDate
FeatureCells == {NA} \cup (0..MaxVal)
CasesCells == {NA, 10, 12}

----------------------------------------------------------------------------
(* Sequences *)

RangeIndex(n) == [i \in 1..n |-> i - 1]

Positions(s) == [i \in 1..Len(s) |-> i]

SeqSet(s) == {s[i] : i \in 1..Len(s)}

Contains(s, x) == \E i \in 1..Len(s) : s[i] = x

PosOf(s, x) == CHOOSE i \in 1..Len(s) : s[i] = x

RECURSIVE SumSeq(_)
SumSeq(s) == IF s = <<>> THEN 0 ELSE Head(s) + SumSeq(Tail(s))

RECURSIVE Ascending(_)
Ascending(S) ==
    IF S = {} THEN <<>>
    ELSE LET m == CHOOSE x \in S : \A y \in S : x <= y
         IN <<m>> \o Ascending(S \ {m})

----------------------------------------------------------------------------
(* Files and frames *)

CASES == "cases.csv"
WEB == "web_metrics.csv"
RAW == "merged_data_raw.csv"
CLEANED == "cleaned_merged_data.csv"

required_files == <<CASES, WEB>>
output_files == <<RAW, CLEANED>>
FileNames == {CASES, WEB, RAW, CLEANED}

Absent == [kind |-> "absent", cols |-> <<>>, rows |-> <<>>, fmt |-> ""]
Garbage == [kind |-> "garbage", cols |-> <<>>, rows |-> <<>>, fmt |-> ""]
Empty == [kind |-> "empty", cols |-> <<>>, rows |-> <<>>, fmt |-> ""]
Csv(cols, rows) == [kind |-> "csv", cols |-> cols, rows |-> rows, fmt |-> ""]

NoFrame == [cols |-> <<>>, index |-> <<>>, rows |-> <<>>]

exists(f, name) == f[name].kind # "absent"

Column(df, c) == [i \in 1..Len(df.rows) |-> df.rows[i][PosOf(df.cols, c)]]

DateSet(t) == IF Contains(t.cols, "date") THEN SeqSet(Column(t, "date")) ELSE {}

\* pd.read_csv(name, parse_dates=["date"]): raises when the file is absent
\* (FileNotFoundError), is not CSV (ParserError) or has no date column
\* (ValueError: Missing column provided to 'parse_dates')
CanRead(file) == file.kind = "csv" /\ Contains(file.cols, "date")

read_csv(file) ==
    [cols |-> file.cols, index |-> RangeIndex(Len(file.rows)), rows |-> file.rows]

\* df.to_csv(name, index=False, float_format=fmt): header and rows, no index
to_csv(df, fmt) == [kind |-> "csv", cols |-> df.cols, rows |-> df.rows, fmt |-> fmt]

----------------------------------------------------------------------------
(* pandas and scikit-learn operations the pipeline calls *)

DropPos(s, p) == [k \in 1..(Len(s) - 1) |-> IF k < p THEN s[k] ELSE s[k + 1]]

\* the dtype read_csv(parse_dates=["date"]) leaves on the date column: text
\* that is no date leaves the whole column as object, without raising
DateDtype(df) ==
    IF Contains(Column(df, "date"), STR) THEN "object" ELSE "datetime64"

\* pd.merge raises ValueError when the key columns of two non-empty frames
\* have different dtypes
CanMerge(left, right) ==
    \/ Len(left.rows) = 0
    \/ Len(right.rows) = 0
    \/ DateDtype(left) = DateDtype(right)

\* the pairs <<i, j>> of a left row and a right row with equal keys, in the
\* order of the left rows (how="inner" keeps the order of the left keys)
RECURSIVE MatchPairs(_, _, _, _)
MatchPairs(left, right, i, j) ==
    IF i > Len(left.rows) THEN <<>>
    ELSE IF j > Len(right.rows) THEN MatchPairs(left, right, i + 1, 1)
    ELSE (IF Column(left, "date")[i] = Column(right, "date")[j]
          THEN <<<<i, j>>>> ELSE <<>>)
         \o MatchPairs(left, right, i, j + 1)

\* pd.merge(left, right, on="date", how="inner"): the columns of left, then
\* those of right without the key; a fresh RangeIndex.  (The inputs drawn
\* here share no column but date, so no _x/_y suffix is added.)
merge(left, right) ==
    LET pairs == MatchPairs(left, right, 1, 1)
        p == PosOf(right.cols, "date")
    IN [cols |-> left.cols \o DropPos(right.cols, p),
        index |-> RangeIndex(Len(pairs)),
        rows |-> [k \in 1..Len(pairs) |->
                    left.rows[pairs[k][1]] \o DropPos(right.rows[pairs[k][2]], p)]]

\* df.dropna(): the rows with no missing cell, each keeping its index label
dropna(df) ==
    LET keep == SelectSeq(Positions(df.rows), LAMBDA i : ~Contains(df.rows[i], NA))
    IN [cols |-> df.cols,
        index |-> [k \in 1..Len(keep) |-> df.index[keep[k]]],
        rows |-> [k \in 1..Len(keep) |-> df.rows[keep[k]]]]

\* df.drop(columns=names) raises KeyError when a name is no column
CanDrop(df, names) == names \subseteq SeqSet(df.cols)

drop(df, names) ==
    LET keep == SelectSeq(Positions(df.cols), LAMBDA p : df.cols[p] \notin names)
    IN [cols |-> [k \in 1..Len(keep) |-> df.cols[keep[k]]],
        index |-> df.index,
        rows |-> [i \in 1..Len(df.rows) |->
                    [k \in 1..Len(keep) |-> df.rows[i][keep[k]]]]]

\* df[c]: one column with the frame's index
Series(df, c) ==
    [cols |-> <<c>>, index |-> df.index,
     rows |-> [i \in 1..Len(df.rows) |-> <<df.rows[i][PosOf(df.cols, c)]>>]]

\* StandardScaler().fit_transform(X) raises ValueError on an X with no row
\* or no column, or with a cell that is no number
CanFit(X) ==
    /\ Len(X.rows) >= 1
    /\ Len(X.cols) >= 1
    /\ \A i \in 1..Len(X.rows) : ~Contains(X.rows[i], STR)

\* what fit() learns of column p: the count n, the sum S and
\* D = n * sum(x^2) - S^2 of its non-missing cells, so that
\* mean_ = S / n and var_ = D / n^2 (the population variance)
ColumnStats(X, p) ==
    LET xs == SelectSeq([i \in 1..Len(X.rows) |-> X.rows[i][p]], LAMBDA x : x # NA)
        n == Len(xs)
        S == SumSeq(xs)
        c == IF n = 0 THEN 0 ELSE xs[1]
        Sc == SumSeq([i \in 1..n |-> xs[i] - c])
        Qc == SumSeq([i \in 1..n |-> (xs[i] - c) * (xs[i] - c)])
    IN [n |-> n, S |-> S, D |-> n * Qc - Sc * Sc]

\* scaling without centering (with_mean=False)
ZScore_uncentered(x, st) ==
    IF x = NA THEN NaN
    ELSE [num |-> st.n * x,
          den2 |-> IF st.D = 0 THEN st.n * st.n ELSE st.D]

\* scale_ = sqrt(var_), with a zero scale replaced by 1 (a constant column):
\* (x - mean_) / scale_ = (n x - S) / sqrt(D), or (n x - S) / n when D = 0
ZScore(x, st) ==
    IF x = NA THEN NaN
    ELSE [num |-> st.n * x - st.S,
          den2 |-> IF st.D = 0 THEN st.n * st.n ELSE st.D]

\* the array fit_transform returns: one row per row of X, no index
fit_transform(X) ==
    [i \in 1..Len(X.rows) |->
        [p \in 1..Len(X.cols) |-> ZScore(X.rows[i][p], ColumnStats(X, p))]]

\* pd.DataFrame(array, columns=cols): a fresh RangeIndex
DataFrame(array, cols) ==
    [cols |-> cols, index |-> RangeIndex(Len(array)), rows |-> array]

\* the missing cell of a column of the final table: NaT or NaN in date and
\* cases, NaN in a standardized column
MissingCell(c) == IF c \in {"date", "cases"} THEN NA ELSE NaN

\* Index.union(other, sort=False): the labels of a, then the new ones of b
UnionIndex(a, b) == a \o SelectSeq(b, LAMBDA x : ~Contains(a, x))

\* the row of part at label L, or missing cells when part has no such label
RowAt(part, L) ==
    IF Contains(part.index, L) THEN part.rows[PosOf(part.index, L)]
    ELSE [k \in 1..Len(part.cols) |-> MissingCell(part.cols[k])]

\* pd.concat([a, b, c], axis=1): the columns side by side, the rows aligned
\* on the index labels; a label one part lacks gives missing cells there
concat(a, b, c) ==
    LET idx == UnionIndex(UnionIndex(a.index, b.index), c.index)
    IN [cols |-> a.cols \o b.cols \o c.cols,
        index |-> idx,
        rows |-> [k \in 1..Len(idx) |->
                    RowAt(a, idx[k]) \o RowAt(b, idx[k]) \o RowAt(c, idx[k])]]

----------------------------------------------------------------------------
(* datacleaner.py: DataProcessor *)

\* a finished run: the directory it leaves, the frames it computed, the steps
\* it completed in order, the step that failed ("none" when none did) and
\* what the caller gets (ret)
Outcome(f, who, steps, failed, ret, merged, cleaned, final) ==
    [fs |-> f,
     run |-> [who |-> who, steps |-> steps, failed |-> failed, ret |-> ret],
     merged |-> merged, cleaned |-> cleaned, final |-> final]

\* open(name, "w") raises PermissionError on a file the process may not write
CanWrite(unw, name) == name \notin unw

verify_file_exists(f, file_name) == exists(f, file_name)

validate_input_files(f) ==
    \A i \in 1..Len(required_files) : verify_file_exists(f, required_files[i])

CanLoad(f) == CanRead(f[CASES]) /\ CanRead(f[WEB])

\* <<covid_cases, web_traffic>>
load_datasets(f) == <<read_csv(f[CASES]), read_csv(f[WEB])>>

\* the merge written with how="left": every web row survives, matched or not
merge_datasets_left(covid_cases, web_traffic) ==
    LET p == PosOf(covid_cases.cols, "date")
        width == Len(covid_cases.cols) - 1
        Match(i) == {j \in 1..Len(covid_cases.rows) :
                        Column(covid_cases, "date")[j] = Column(web_traffic, "date")[i]}
    IN [cols |-> web_traffic.cols \o DropPos(covid_cases.cols, p),
        index |-> RangeIndex(Len(web_traffic.rows)),
        rows |-> [i \in 1..Len(web_traffic.rows) |->
                    web_traffic.rows[i] \o
                    (IF Match(i) = {} THEN [k \in 1..width |-> NA]
                     ELSE DropPos(covid_cases.rows[CHOOSE j \in Match(i) : TRUE], p))]]

merge_datasets(covid_cases, web_traffic) == merge(web_traffic, covid_cases)

clean_dataset(merged) == dropna(merged)

CanStandardize(cleaned) ==
    /\ CanDrop(cleaned, {"date", "cases"})
    /\ CanFit(drop(cleaned, {"date", "cases"}))

\* the concat written with cases before the standardized features
standardize_features_cases_first(cleaned) ==
    LET feature_columns == drop(cleaned, {"date", "cases"})
        standardized_df == DataFrame(fit_transform(feature_columns), feature_columns.cols)
    IN concat(Series(cleaned, "date"), Series(cleaned, "cases"), standardized_df)

standardize_features(cleaned) ==
    LET feature_columns == drop(cleaned, {"date", "cases"})
        standardized_features == fit_transform(feature_columns)
        standardized_df == DataFrame(standardized_features, feature_columns.cols)
    IN concat(Series(cleaned, "date"), standardized_df, Series(cleaned, "cases"))

\* the two writes in the other order: the final table first
save_processed_data_final_first(f, unw, merged, final) ==
    IF ~CanWrite(unw, CLEANED)
    THEN [fs |-> f, steps |-> <<>>, failed |-> "save_cleaned"]
    ELSE LET f1 == [f EXCEPT ![CLEANED] = to_csv(final, "%.6f")]
         IN IF ~CanWrite(unw, RAW)
            THEN [fs |-> f1, steps |-> <<"save_cleaned">>, failed |-> "save_raw"]
            ELSE [fs |-> [f1 EXCEPT ![RAW] = to_csv(merged, "")],
                  steps |-> <<"save_cleaned", "save_raw">>, failed |-> "none"]

\* the directory after save_processed_data, the writes it completed and
\* whether it returned: the raw backup is written first, then the final table
save_processed_data(f, unw, merged, final) ==
    IF ~CanWrite(unw, RAW)
    THEN [fs |-> f, steps |-> <<>>, failed |-> "save_raw"]
    ELSE LET f1 == [f EXCEPT ![RAW] = to_csv(merged, "")]
         IN IF ~CanWrite(unw, CLEANED)
            THEN [fs |-> f1, steps |-> <<"save_raw">>, failed |-> "save_cleaned"]
            ELSE [fs |-> [f1 EXCEPT ![CLEANED] = to_csv(final, "%.6f")],
                  steps |-> <<"save_raw", "save_cleaned">>, failed |-> "none"]

\* process_data(): every exception is caught and turned into False
process_data(f, unw) ==
    IF ~validate_input_files(f)
    THEN Outcome(f, "DataProcessor", <<>>, "check", "False",
                 NoFrame, NoFrame, NoFrame)
    ELSE IF ~CanLoad(f)
    THEN Outcome(f, "DataProcessor", <<"check">>, "load", "False",
                 NoFrame, NoFrame, NoFrame)
    ELSE
    LET loaded == load_datasets(f) IN
    IF ~CanMerge(loaded[2], loaded[1])
    THEN Outcome(f, "DataProcessor", <<"check", "load">>, "merge", "False",
                 NoFrame, NoFrame, NoFrame)
    ELSE
    LET merged == merge_datasets(loaded[1], loaded[2])
        cleaned == clean_dataset(merged)
    IN
    IF ~CanStandardize(cleaned)
    THEN Outcome(f, "DataProcessor", <<"check", "load", "merge", "clean">>,
                 "standardize", "False", merged, cleaned, NoFrame)
    ELSE
    LET final == standardize_features(cleaned)
        saved == save_processed_data(f, unw, merged, final)
    IN Outcome(saved.fs, "DataProcessor",
               <<"check", "load", "merge", "clean", "standardize">> \o saved.steps,
               saved.failed,
               IF saved.failed = "none" THEN "True" ELSE "False",
               merged, cleaned, final)

----------------------------------------------------------------------------
(* setup_and_run.py: DashboardOrchestrator.process_and_clean_data *)

\* every exception is caught and ends the process with sys.exit(1)
process_and_clean_data(f, unw) ==
    IF ~CanLoad(f)
    THEN Outcome(f, "DashboardOrchestrator", <<>>, "load", "exit1",
                 NoFrame, NoFrame, NoFrame)
    ELSE
    LET covid_cases == read_csv(f[CASES])
        web_traffic == read_csv(f[WEB])
    IN
    IF ~CanMerge(web_traffic, covid_cases)
    THEN Outcome(f, "DashboardOrchestrator", <<"load">>, "merge", "exit1",
                 NoFrame, NoFrame, NoFrame)
    ELSE
    LET merged == merge(web_traffic, covid_cases)
        \* dropna(inplace=True): merged_dataset is the cleaned frame from here on
        merged_dataset == dropna(merged)
    IN
    IF ~CanWrite(unw, RAW)
    THEN Outcome(f, "DashboardOrchestrator", <<"load", "merge", "clean">>,
                 "save_raw", "exit1", merged, merged_dataset, NoFrame)
    ELSE
    LET f1 == [f EXCEPT ![RAW] = to_csv(merged_dataset, "")] IN
    IF ~CanStandardize(merged_dataset)
    THEN Outcome(f1, "DashboardOrchestrator",
                 <<"load", "merge", "clean", "save_raw">>,
                 "standardize", "exit1", merged, merged_dataset, NoFrame)
    ELSE
    LET cleaned_dataset == standardize_features(merged_dataset) IN
    IF ~CanWrite(unw, CLEANED)
    THEN Outcome(f1, "DashboardOrchestrator",
                 <<"load", "merge", "clean", "save_raw", "standardize">>,
                 "save_cleaned", "exit1", merged, merged_dataset, cleaned_dataset)
    ELSE Outcome([f1 EXCEPT ![CLEANED] = to_csv(cleaned_dataset, "")],
                 "DashboardOrchestrator",
                 <<"load", "merge", "clean", "save_raw", "standardize",
                   "save_cleaned">>,
                 "none", "return", merged, merged_dataset, cleaned_dataset)

----------------------------------------------------------------------------
(* data_validation_utils.py: DataValidator *)

DefaultMinRowCount == 10

\* a configuration: kind "json" holds the two settings objects when
\* has_settings; "absent" is no file; "malformed" is a file json.load rejects
Config(kind, has_settings, min_row_count) ==
    [kind |-> kind,
     has_settings |-> has_settings,
     input |-> [required_columns |-> <<"date", "cases">>,
                min_row_count |-> min_row_count],
     web |-> [required_columns |-> <<"date", "page_views", "unique_visitors">>,
              numeric_columns |-> <<"page_views", "unique_visitors", "search_queries">>,
              min_row_count |-> min_row_count]]

_get_default_config == Config("json", TRUE, DefaultMinRowCount)

\* the loader without its except FileNotFoundError clause
CanLoadConfig_unhandled(cfgfile) == cfgfile.kind = "json"

\* open() raising FileNotFoundError gives the default; json.load raising
\* JSONDecodeError is not caught
CanLoadConfig(cfgfile) == cfgfile.kind # "malformed"

_load_validation_config(cfgfile) ==
    IF cfgfile.kind = "absent" THEN _get_default_config ELSE cfgfile

\* pd.read_csv(file_path), no parse_dates: raises on an absent or non-CSV file
CanParse(file) == file.kind = "csv"

missing_columns(required_columns, file) ==
    SelectSeq(required_columns, LAMBDA col : ~Contains(file.cols, col))

\* pd.to_datetime(data['date']) raises on a missing column and on text that
\* is no date
CanToDatetime(file) ==
    /\ Contains(file.cols, "date")
    /\ ~Contains(Column(file, "date"), STR)

\* pd.api.types.is_numeric_dtype(data[column]): a column with a text cell, or
\* of a table with no row, has dtype object
is_numeric_dtype(file, column) ==
    /\ Len(file.rows) > 0
    /\ ~Contains(Column(file, column), STR)

validate_covid_cases_file(validation_config, file) ==
    IF ~CanParse(file) THEN FALSE
    ELSE IF ~validation_config.has_settings THEN FALSE
    ELSE LET validation_settings == validation_config.input IN
         IF missing_columns(validation_settings.required_columns, file) # <<>>
         THEN FALSE
         ELSE IF Len(file.rows) < validation_settings.min_row_count THEN FALSE
         ELSE IF ~CanToDatetime(file) THEN FALSE
         ELSE TRUE

validate_web_metrics_file(validation_config, file) ==
    IF ~CanParse(file) THEN FALSE
    ELSE IF ~validation_config.has_settings THEN FALSE
    ELSE LET validation_settings == validation_config.web IN
         IF missing_columns(validation_settings.required_columns, file) # <<>>
         THEN FALSE
         ELSE IF Len(file.rows) < validation_settings.min_row_count THEN FALSE
         ELSE IF \E k \in 1..Len(validation_settings.numeric_columns) :
                    LET column == validation_settings.numeric_columns[k] IN
                    /\ Contains(file.cols, column)
                    /\ ~is_numeric_dtype(file, column)
         THEN FALSE
         ELSE TRUE

validate_all_input_files(validation_config, f) ==
    LET covid_validation_passed == validate_covid_cases_file(validation_config, f[CASES])
        web_metrics_validation_passed == validate_web_metrics_file(validation_config, f[WEB])
    IN covid_validation_passed /\ web_metrics_validation_passed

\* DataValidator(config).<op>(...): "raised" when the constructor or the call
\* lets an exception out, else the boolean returned
Bool(b) == IF b THEN "True" ELSE "False"

Validation(op, cfgfile, f) ==
    IF ~CanLoadConfig(cfgfile) THEN [op |-> op, result |-> "raised"]
    ELSE LET validation_config == _load_validation_config(cfgfile) IN
         [op |-> op,
          result |-> CASE op = "validate_covid_cases_file" ->
                            Bool(validate_covid_cases_file(validation_config, f[CASES]))
                       [] op = "validate_web_metrics_file" ->
                            Bool(validate_web_metrics_file(validation_config, f[WEB]))
                       [] OTHER ->
                            Bool(validate_all_input_files(validation_config, f))]

----------------------------------------------------------------------------
(* create_sample_data.py: SampleDataGenerator, and                         *)
(* setup_and_run.py: DashboardOrchestrator.create_sample_datasets          *)
(*                                                                         *)
(* numpy's global generator is one integer state: np.random.seed sets it,  *)
(* every draw steps it and is a function of the new state.  The step is a  *)
(* 16-bit linear congruential one, standing for the Mersenne Twister: what *)
(* the generators rely on is only that the stream is a function of the     *)
(* seed and of the number of draws made since.  Case counts are whole      *)
(* numbers; a generated web metric cell is kept in hundredths, the unit in *)
(* which 0.1 * 0.8 * cases is exact.                                       *)

\* self.random_seed, and the argument of np.random.seed in the orchestrator
random_seed == 42

\* np.random.seed(seed)
seed(s) == s % 65536

\* one step of the generator state
NextState(x) == (25173 * x + 13849) % 65536

\* the states of the n draws made from state x, in order
RECURSIVE States(_, _)
States(x, n) == IF n = 0 THEN <<>> ELSE <<NextState(x)>> \o States(NextState(x), n - 1)

StateAfter(x, n) == IF n = 0 THEN x ELSE States(x, n)[n]

\* np.random.normal(0, 15, n): n draws around 0
normal(x, n) == [i \in 1..n |-> (States(x, n)[i] % 31) - 15]

\* np.random.poisson(lam, n): n draws around lam
poisson(x, lam, n) == [i \in 1..n |-> lam + (States(x, n)[i] % 7) - 3]

\* np.linspace(0, 100, n)[i], in hundredths
trend_component(i, n) == IF n = 1 THEN 0 ELSE (10000 * (i - 1)) \div (n - 1)

\* 20 * np.sin(2 * np.pi * k / 30), in hundredths, for the first days
seasonal_component(k) ==
    CASE k = 0 -> 0 [] k = 1 -> 415 [] k = 2 -> 813 [] k = 3 -> 1175
      [] k = 4 -> 1486 [] OTHER -> 1732

Max(a, b) == IF a >= b THEN a ELSE b

\* case_counts: np.maximum(0, base + trend + seasonal + noise).astype(int),
\* the noise drawn from state x
case_counts(x, n) ==
    LET noise_component == normal(x, n) IN
    [i \in 1..n |->
        Max(0, 5000 + trend_component(i, n) + seasonal_component(i - 1)
                 + 100 * noise_component[i]) \div 100]

\* pd.DataFrame({'date': date_range, 'cases': case_counts})
cases_frame(counts) ==
    [cols |-> <<"date", "cases">>, index |-> RangeIndex(Len(counts)),
     rows |-> [i \in 1..Len(counts) |-> <<i, counts[i]>>]]

\* the web metrics frame: five Poisson draws of n, in the order of the
\* columns, from state x; each plus its offset plus its share of influence
\* (case_influence = 0.1 * influence_counts), in hundredths
web_frame(x, n, influence_counts) ==
    LET pv == poisson(x, 1000, n)
        uv == poisson(StateAfter(x, n), 800, n)
        sq == poisson(StateAfter(x, 2 * n), 200, n)
        cs == poisson(StateAfter(x, 3 * n), 50, n)
        ar == poisson(StateAfter(x, 4 * n), 30, n)
    IN [cols |-> <<"date", "page_views", "unique_visitors", "search_queries",
                   "covid_symptom_searches", "appointment_requests">>,
        index |-> RangeIndex(n),
        rows |-> [i \in 1..n |->
                    <<i,
                      100 * (pv[i] + 500) + 10 * influence_counts[i],
                      100 * (uv[i] + 300) + 8 * influence_counts[i],
                      100 * (sq[i] + 100) + 5 * influence_counts[i],
                      100 * (cs[i] + 20) + 3 * influence_counts[i],
                      100 * (ar[i] + 10) + 2 * influence_counts[i]>>]]

\* what one generation leaves: the two frames written, the case counts the
\* influence was taken from, the generator state before and after
Generated(who, x0, x1, covid, web, influence_counts) ==
    [who |-> who, from |-> x0, np_random |-> x1,
     cases |-> to_csv(covid, ""), web |-> to_csv(web, ""),
     influence |-> influence_counts]

\* SampleDataGenerator.create_covid_cases_data(date_range), drawing from x
create_covid_cases_data(x, n) == case_counts(x, n)

\* SampleDataGenerator.create_web_traffic_data(date_range), drawing from x:
\* it calls create_covid_cases_data again, which draws a new noise vector,
\* and takes the influence from that
create_web_traffic_data(x, n) ==
    LET influence_counts == create_covid_cases_data(x, n)
    IN [frame |-> web_frame(StateAfter(x, n), n, influence_counts),
        influence |-> influence_counts]

\* SampleDataGenerator.generate_all_sample_data(), the global state being x;
\* the constructor is what seeds, not this method
generate_all_sample_data(x, n) ==
    LET covid_cases == cases_frame(create_covid_cases_data(x, n))
        web_metrics == create_web_traffic_data(StateAfter(x, n), n)
    IN Generated("SampleDataGenerator", x, StateAfter(x, 7 * n),
                 covid_cases, web_metrics.frame, web_metrics.influence)

\* DashboardOrchestrator.create_sample_datasets(): seeds, then draws
create_sample_datasets(n) ==
    LET x == seed(random_seed)
        counts == case_counts(x, n)
    IN Generated("DashboardOrchestrator", x, StateAfter(x, 6 * n),
                 cases_frame(counts), web_frame(StateAfter(x, n), n, counts), counts)

----------------------------------------------------------------------------
(* setup_and_run.py: DashboardOrchestrator.setup_and_launch *)

input_files == <<CASES, WEB>>

\* all(os.path.exists(f) for f in self.project_files['input_files']), ignored
input_files_exist_ignored(f) == FALSE

\* all(os.path.exists(f) for f in self.project_files['input_files'])
input_files_exist(f) == \A name \in SeqSet(input_files) : exists(f, name)

\* all(os.path.exists(f) for f in self.project_files['output_files'])
output_files_exist(f) == \A name \in SeqSet(output_files) : exists(f, name)

\* verify_required_files: every input and output file exists, else sys.exit(1)
verify_required_files(f) == \A name \in SeqSet(input_files \o output_files) : exists(f, name)

\* the first step, create_sample_datasets() when an input file is missing:
\* the numpy state and the directory it leaves, whether it ran, and whether
\* a to_csv raised (PermissionError, which nothing catches)
create_step(f, unw, x, n) ==
    IF input_files_exist(f)
    THEN [fs |-> f, np_random |-> x, created |-> FALSE, raised |-> FALSE]
    ELSE LET out == create_sample_datasets(n) IN
         IF ~CanWrite(unw, CASES)
         THEN [fs |-> f, np_random |-> out.np_random, created |-> TRUE, raised |-> TRUE]
         ELSE IF ~CanWrite(unw, WEB)
         THEN [fs |-> [f EXCEPT ![CASES] = out.cases], np_random |-> out.np_random,
               created |-> TRUE, raised |-> TRUE]
         ELSE [fs |-> [f EXCEPT ![CASES] = out.cases, ![WEB] = out.web],
               np_random |-> out.np_random, created |-> TRUE, raised |-> FALSE]

\* the second step, process_and_clean_data() when an output file is missing
clean_step(f, unw) ==
    IF output_files_exist(f)
    THEN Outcome(f, "DashboardOrchestrator", <<>>, "none", "skipped",
                 NoFrame, NoFrame, NoFrame)
    ELSE process_and_clean_data(f, unw)

\* setup_and_launch(): present is os.path.exists('covidDashboard.py'), x the
\* state of numpy's generator, n the days of the date range.  The steps
\* taken are recorded; ret is "exit1" (sys.exit(1), or the status of an
\* exception nothing catches: the process has ended) or "launched"
\* (subprocess.run has started the dashboard and waits for it to end)
setup_and_launch(f, unw, present, x, n) ==
    IF ~present
    THEN [out |-> Outcome(f, "setup_and_run.py", <<>>, "check", "exit1",
                          NoFrame, NoFrame, NoFrame),
          np_random |-> x]
    ELSE
    LET c == create_step(f, unw, x, n)
        created == IF c.created THEN <<"create">> ELSE <<>>
    IN
    IF c.raised
    THEN [out |-> Outcome(c.fs, "setup_and_run.py", <<>>, "create", "exit1",
                          NoFrame, NoFrame, NoFrame),
          np_random |-> c.np_random]
    ELSE
    LET d == clean_step(c.fs, unw)
        cleaning == IF d.run.ret = "skipped" THEN <<>>
                    ELSE <<"process_and_clean_data">> \o d.run.steps
    IN
    IF d.run.ret = "exit1"
    THEN [out |-> Outcome(d.fs, "setup_and_run.py", created \o cleaning,
                          d.run.failed, "exit1", d.merged, d.cleaned, d.final),
          np_random |-> c.np_random]
    ELSE IF ~verify_required_files(d.fs)
    THEN [out |-> Outcome(d.fs, "setup_and_run.py", created \o cleaning,
                          "verify", "exit1", d.merged, d.cleaned, d.final),
          np_random |-> c.np_random]
    ELSE [out |-> Outcome(d.fs, "setup_and_run.py",
                          created \o cleaning \o <<"verify", "launch">>,
                          "none", "launched", d.merged, d.cleaned, d.final),
          np_random |-> c.np_random]

----------------------------------------------------------------------------
(* covidDashboard.py: DataLoader.load_processed_data *)

\* a CSV file the default (C) parser rejects with ParserError and the python
\* engine parses
PythonOnly(file) == [file EXCEPT !.kind = "csv_python"]

\* the body of load_processed_data, run on the file as it is on disk:
\* whether it returns a frame or ends in st.stop(), the frame, and the
\* number of times pd.read_csv read the file: none when it does not exist
\* (FileNotFoundError); once when it returns, or raises anything but
\* ParserError (EmptyDataError on a 0-byte file, ValueError on a missing
\* date column: the last handler); twice when the default engine raised
\* ParserError and the python engine was tried
read_processed_data(file) ==
    CASE file.kind = "absent" ->
           [ok |-> FALSE, frame |-> NoFrame, reads |-> 0]
      [] file.kind = "csv" /\ CanRead(file) ->
           [ok |-> TRUE, frame |-> read_csv(file), reads |-> 1]
      [] file.kind = "csv" /\ ~CanRead(file) ->
           [ok |-> FALSE, frame |-> NoFrame, reads |-> 1]
      [] file.kind = "empty" ->
           [ok |-> FALSE, frame |-> NoFrame, reads |-> 1]
      [] file.kind = "csv_python" /\ Contains(file.cols, "date") ->
           [ok |-> TRUE, frame |-> read_csv(file), reads |-> 2]
      [] OTHER ->
           [ok |-> FALSE, frame |-> NoFrame, reads |-> 2]

\* a request served by running the body, the cache left as it is
Request(d, r) ==
    [d EXCEPT !.session = IF r.ok THEN "running" ELSE "halted",
              !.returned = r.frame,
              !.reads = @ + r.reads,
              !.loads = @ + (IF r.ok THEN 1 ELSE 0),
              !.requests = @ + 1]

\* load_processed_data without st.cache_data: the body runs on every request
load_processed_data_uncached(file, d) ==
    LET r == read_processed_data(file)
        e == Request(d, r)
    IN IF r.ok /\ ~d.cached THEN [e EXCEPT !.cached = TRUE, !.cache = r.frame] ELSE e

\* one request of load_processed_data() under @st.cache_data, d being the
\* state of the process: a cached value is returned without running the
\* body; otherwise the body runs, and its value is cached when it returns
\* (st.stop() raises, and nothing is cached)
load_processed_data(file, d) ==
    IF d.cached
    THEN [d EXCEPT !.session = "running", !.returned = d.cache, !.requests = @ + 1]
    ELSE LET r == read_processed_data(file)
             e == Request(d, r)
         IN IF r.ok THEN [e EXCEPT !.cached = TRUE, !.cache = r.frame] ELSE e

----------------------------------------------------------------------------
(* The input files the model draws *)

\* the custom configuration sets min-row-count to this
CustomMinRowCount == 2

CasesCols == <<"date", "cases">>
CasesColsExtra == <<"date", "cases", "deaths">>
WebCols1 == <<"date", "page_views">>
WebCols2 == <<"date", "page_views", "unique_visitors">>
WebCols3 == <<"date", "page_views", "unique_visitors", "search_queries">>

\* one row per date of ds, ascending; cell[d] fills the first value column,
\* the date itself any further one
Table(cols, ds, cell) ==
    LET order == Ascending(ds) IN
    Csv(cols, [i \in 1..Len(order) |->
                 [k \in 1..Len(cols) |->
                    IF k = 1 THEN order[i]
                    ELSE IF k = 2 THEN cell[order[i]]
                    ELSE order[i]]])

Tables(cols, cells, maxRows) ==
    UNION {{Table(cols, ds, cell) : cell \in [ds -> cells]} :
           ds \in {x \in SUBSET Dates : Cardinality(x) <= maxRows}}

\* files that make a step fail: no file, no CSV, no date column, no cases or
\* feature column
OddCasesFiles ==
    {Absent, Garbage, Csv(<<"cases">>, <<<<10>>, <<12>>>>), Csv(<<"date">>, <<<<1>>, <<2>>>>)}

OddWebFiles ==
    {Absent, Garbage, Csv(<<"page_views">>, <<<<0>>, <<1>>>>), Csv(<<"date">>, <<<<1>>, <<2>>>>)}

CasesFiles(maxRows) ==
    Tables(CasesCols, CasesCells, maxRows) \cup Tables(CasesColsExtra, {10}, maxRows)
    \cup OddCasesFiles

WebFiles(maxRows) ==
    Tables(WebCols1, FeatureCells, maxRows) \cup Tables(WebCols2, {NA, 0}, maxRows)
    \cup OddWebFiles

\* output files left by an earlier run
OldRaw == Csv(<<"date", "page_views", "cases">>, <<<<1, 0, 10>>>>)
OldCleaned ==
    [kind |-> "csv", cols |-> <<"date", "page_views", "cases">>,
     rows |-> <<<<1, [num |-> 0, den2 |-> 1], 10>>>>, fmt |-> "%.6f"]

Directory(cases, web, raw, cleaned) ==
    [name \in FileNames |->
        CASE name = CASES -> cases
          [] name = WEB -> web
          [] name = RAW -> raw
          [] OTHER -> cleaned]

\* files for the validators: n rows of dates 1..n, the first date cell text
\* when badDate, the first cell of column badCol text
ValidatorTable(cols, n, badDate, badCol) ==
    Csv(cols, [i \in 1..n |->
                 [k \in 1..Len(cols) |->
                    IF k = 1 THEN (IF badDate /\ i = 1 /\ cols[1] = "date" THEN STR ELSE i)
                    ELSE IF cols[k] = badCol /\ i = 1 THEN STR
                    ELSE i % 2]])

RowCounts ==
    {CustomMinRowCount - 1, CustomMinRowCount, DefaultMinRowCount - 1, DefaultMinRowCount}

ValidatorCasesFiles ==
    {Absent, Garbage}
    \cup {ValidatorTable(cols, n, badDate, "") :
            cols \in {CasesCols, <<"date">>, <<"cases">>},
            n \in RowCounts, badDate \in BOOLEAN}

ValidatorWebFiles ==
    {Absent, Garbage}
    \cup {ValidatorTable(cols, n, badDate, badCol) :
            cols \in {WebCols1, WebCols2, WebCols3, <<"page_views", "unique_visitors">>},
            n \in RowCounts, badDate \in BOOLEAN,
            badCol \in {"", "page_views", "search_queries"}}

ConfigFiles ==
    {Config("absent", FALSE, 0), Config("malformed", FALSE, 0),
     Config("json", FALSE, 0), Config("json", TRUE, CustomMinRowCount)}

NoRun == [who |-> "none", steps |-> <<>>, failed |-> "none", ret |-> "none"]
NoVerdict == [op |-> "none", result |-> "none"]

\* the script that ended last, and the status its process ended with
Exit(script, status) == [script |-> script, status |-> status]
NoExit == Exit("none", 0)

\* no request made of the dashboard yet: nothing cached, nothing read
NoSession ==
    [session |-> "none", cached |-> FALSE, cache |-> NoFrame, returned |-> NoFrame,
     reads |-> 0, loads |-> 0, requests |-> 0]

\* no generator constructed, nothing generated, the dashboard script there
\* and not requested
NoSampler ==
    /\ date_range = 1
    /\ np_random = 0
    /\ generator = FALSE
    /\ generated = <<>>

NoDashboard ==
    /\ main_dashboard = TRUE
    /\ dashboard = NoSession
    /\ launched = 0

----------------------------------------------------------------------------
(* The cleaning pipeline as a state machine *)

\* every pair of input tables in a fresh directory, and the small inputs in
\* every directory: old outputs present or not, outputs writable or not
Init ==
    /\ \/ /\ \E cases \in CasesFiles(MaxDate), web \in WebFiles(MaxDate) :
                fs = Directory(cases, web, Absent, Absent)
          /\ unwritable = {}
       \/ /\ \E cases \in CasesFiles(1), web \in WebFiles(1),
               raw \in {Absent, OldRaw}, cleaned \in {Absent, OldCleaned} :
                fs = Directory(cases, web, raw, cleaned)
          /\ unwritable \in SUBSET {RAW, CLEANED}
    /\ run = NoRun
    /\ merged_data = NoFrame
    /\ cleaned_data = NoFrame
    /\ final_dataset = NoFrame
    /\ config = Config("absent", FALSE, 0)
    /\ verdict = NoVerdict
    /\ NoSampler
    /\ NoDashboard
    /\ exit_status = NoExit

Finish(out) ==
    /\ fs' = out.fs
    /\ run' = out.run
    /\ merged_data' = out.merged
    /\ cleaned_data' = out.cleaned
    /\ final_dataset' = out.final
    /\ UNCHANGED <<unwritable, config, verdict, samplerVars, dashboardVars>>

\* python datacleaner.py: the script calls process_data() and drops what it
\* returns, so the process ends with status 0
ProcessData ==
    \E out \in {process_data(fs, unwritable)} :
        /\ Finish(out)
        /\ exit_status' = Exit("datacleaner.py", 0)

\* the cleaning step of python setup_and_run.py: sys.exit(1) when it fails
ProcessAndCleanData ==
    \E out \in {process_and_clean_data(fs, unwritable)} :
        /\ Finish(out)
        /\ exit_status' = IF out.run.ret = "exit1" THEN Exit("setup_and_run.py", 1)
                           ELSE exit_status

Next == ProcessData \/ ProcessAndCleanData

Spec == Init /\ [][Next]_vars

----------------------------------------------------------------------------
(* The validators as a state machine *)

InitValidate ==
    /\ \E cases \in ValidatorCasesFiles, web \in ValidatorWebFiles :
            fs = Directory(cases, web, Absent, Absent)
    /\ config \in ConfigFiles
    /\ unwritable = {}
    /\ run = NoRun
    /\ merged_data = NoFrame
    /\ cleaned_data = NoFrame
    /\ final_dataset = NoFrame
    /\ verdict = NoVerdict
    /\ NoSampler
    /\ NoDashboard
    /\ exit_status = NoExit

Validate(op) ==
    /\ verdict' = Validation(op, config, fs)
    /\ UNCHANGED <<fs, unwritable, run, merged_data, cleaned_data, final_dataset, config,
                   samplerVars, dashboardVars, exit_status>>

ValidateCovidCasesFile == Validate("validate_covid_cases_file")

ValidateWebMetricsFile == Validate("validate_web_metrics_file")

ValidateAllInputFiles == Validate("validate_all_input_files")

NextValidate ==
    ValidateCovidCasesFile \/ ValidateWebMetricsFile \/ ValidateAllInputFiles

SpecValidate == InitValidate /\ [][NextValidate]_vars

----------------------------------------------------------------------------
(* The sample data generators as a state machine *)

\* an empty directory, no generator constructed; the date range is the
\* first date_range days of the one the code fixes
InitGenerate ==
    /\ fs = Directory(Absent, Absent, Absent, Absent)
    /\ unwritable = {}
    /\ run = NoRun
    /\ merged_data = NoFrame
    /\ cleaned_data = NoFrame
    /\ final_dataset = NoFrame
    /\ config = Config("absent", FALSE, 0)
    /\ verdict = NoVerdict
    /\ date_range \in 1..MaxDays
    /\ np_random = 0
    /\ generator = FALSE
    /\ generated = <<>>
    /\ NoDashboard
    /\ exit_status = NoExit

Wrote(out) ==
    /\ fs' = [fs EXCEPT ![CASES] = out.cases, ![WEB] = out.web]
    /\ np_random' = out.np_random
    /\ generated' = Append(generated, out)
    /\ UNCHANGED <<unwritable, run, merged_data, cleaned_data, final_dataset,
                   config, verdict, date_range, dashboardVars, exit_status>>

\* generator = SampleDataGenerator(): the constructor seeds numpy's
\* global generator
NewSampleDataGenerator ==
    /\ generator' = TRUE
    /\ np_random' = seed(random_seed)
    /\ UNCHANGED <<fs, unwritable, run, merged_data, cleaned_data, final_dataset,
                   config, verdict, date_range, generated, dashboardVars, exit_status>>

\* generator.generate_all_sample_data() on the generator constructed
GenerateAllSampleData ==
    /\ generator
    /\ Len(generated) < MaxCalls
    /\ \E out \in {generate_all_sample_data(np_random, date_range)} : Wrote(out)
    /\ UNCHANGED generator

\* DashboardOrchestrator().create_sample_datasets()
CreateSampleDatasets ==
    /\ Len(generated) < MaxCalls
    /\ \E out \in {create_sample_datasets(date_range)} : Wrote(out)
    /\ UNCHANGED generator

NextGenerate ==
    NewSampleDataGenerator \/ GenerateAllSampleData \/ CreateSampleDatasets

SpecGenerate == InitGenerate /\ [][NextGenerate]_vars

----------------------------------------------------------------------------
(* The three scripts as a state machine *)

\* small inputs, present or not, in every directory
EntryCasesFiles == {Absent, Garbage} \cup Tables(CasesCols, {NA, 10}, 1)
EntryWebFiles == {Absent, Garbage} \cup Tables(WebCols1, {NA, 0}, 1)

\* inputs of about the configured minimum of rows, for the validation
EntryRowCounts == {CustomMinRowCount - 1, CustomMinRowCount}

EntryValidatorCasesFiles ==
    {Absent} \cup {ValidatorTable(CasesCols, n, badDate, "") :
                     n \in EntryRowCounts, badDate \in BOOLEAN}

EntryValidatorWebFiles ==
    {Absent} \cup {ValidatorTable(WebCols2, n, FALSE, badCol) :
                     n \in EntryRowCounts, badCol \in {"", "page_views"}}

\* every combination of files present: the dashboard script, the inputs,
\* old outputs; files the process may not write; or inputs for the
\* validation under every configuration
InitEntry ==
    /\ \/ /\ \E cases \in EntryCasesFiles, web \in EntryWebFiles,
               raw \in {Absent, OldRaw}, cleaned \in {Absent, OldCleaned} :
                fs = Directory(cases, web, raw, cleaned)
          /\ unwritable \in SUBSET {WEB, RAW, CLEANED}
          /\ main_dashboard \in BOOLEAN
          /\ date_range \in {1, MaxDays}
          /\ config = Config("absent", FALSE, 0)
       \/ /\ \E cases \in EntryValidatorCasesFiles, web \in EntryValidatorWebFiles :
                fs = Directory(cases, web, Absent, Absent)
          /\ unwritable = {}
          /\ main_dashboard = TRUE
          /\ date_range = 1
          /\ config \in ConfigFiles
    /\ run = NoRun
    /\ merged_data = NoFrame
    /\ cleaned_data = NoFrame
    /\ final_dataset = NoFrame
    /\ verdict = NoVerdict
    /\ np_random = 0
    /\ generator = FALSE
    /\ generated = <<>>
    /\ dashboard = NoSession
    /\ launched = 0
    /\ exit_status = NoExit

\* python setup_and_run.py, up to the end of its process (status 1) or to
\* subprocess.run, which starts the dashboard and blocks until that ends:
\* the process of setup_and_run.py has then not ended
SetupAndLaunch ==
    /\ launched < MaxLaunched
    /\ \E r \in {setup_and_launch(fs, unwritable, main_dashboard, np_random, date_range)} :
        /\ fs' = r.out.fs
        /\ run' = r.out.run
        /\ merged_data' = r.out.merged
        /\ cleaned_data' = r.out.cleaned
        /\ final_dataset' = r.out.final
        /\ np_random' = r.np_random
        /\ exit_status' = IF r.out.run.ret = "exit1" THEN Exit("setup_and_run.py", 1)
                           ELSE exit_status
        /\ launched' = IF r.out.run.ret = "launched" THEN launched + 1 ELSE launched
        /\ UNCHANGED <<unwritable, config, verdict, date_range, generator, generated,
                       main_dashboard, dashboard>>

\* a launched dashboard ends (stopped with Ctrl+C, or exited with any
\* status): subprocess.run returns or raises, every handler only prints,
\* setup_and_launch returns and setup_and_run.py ends with status 0.  The
\* cache goes with the process that held it
DashboardEnds ==
    /\ launched > 0
    /\ launched' = launched - 1
    /\ dashboard' \in (IF launched = 1 THEN {NoSession} ELSE {NoSession, dashboard})
    /\ exit_status' = Exit("setup_and_run.py", 0)
    /\ UNCHANGED <<fs, unwritable, run, merged_data, cleaned_data, final_dataset,
                   config, verdict, samplerVars, main_dashboard>>

\* python data_validation_utils.py: run_data_validation(), then the quality
\* reports or a message; the script never calls sys.exit, and only the
\* exception of the constructor (a malformed configuration) is uncaught
ValidationMain ==
    /\ verdict' = Validation("run_data_validation", config, fs)
    /\ exit_status' = Exit("data_validation_utils.py",
                           IF verdict'.result = "raised" THEN 1 ELSE 0)
    /\ UNCHANGED <<fs, unwritable, run, merged_data, cleaned_data, final_dataset, config,
                   samplerVars, dashboardVars>>


----------------------------------------------------------------------------
(* The dashboard process as a state machine *)

\* a second cleaned file, of two rows
NewCleaned ==
    [kind |-> "csv", cols |-> <<"date", "page_views", "cases">>,
     rows |-> <<<<1, [num |-> -1, den2 |-> 1], 10>>, <<2, [num |-> 1, den2 |-> 1], 12>>>>,
     fmt |-> "%.6f"]

\* what cleaned_merged_data.csv can be when the dashboard asks for it
DashboardFiles ==
    {Absent, Garbage, Empty, OldCleaned, NewCleaned, PythonOnly(OldCleaned),
     Csv(<<"page_views", "cases">>, <<<<0, 10>>>>)}

InitDashboard ==
    /\ \E cleaned \in DashboardFiles : fs = Directory(Absent, Absent, Absent, cleaned)
    /\ unwritable = {}
    /\ run = NoRun
    /\ merged_data = NoFrame
    /\ cleaned_data = NoFrame
    /\ final_dataset = NoFrame
    /\ config = Config("absent", FALSE, 0)
    /\ verdict = NoVerdict
    /\ NoSampler
    /\ main_dashboard = TRUE
    /\ dashboard = NoSession
    /\ launched = 1
    /\ exit_status = NoExit

\* a run of the dashboard script in a living streamlit process (the first,
\* or a rerun): processed_data = data_loader.load_processed_data()
LoadProcessedData ==
    /\ launched > 0
    /\ dashboard.requests < MaxRequests
    /\ dashboard' = load_processed_data(fs[CLEANED], dashboard)
    /\ UNCHANGED <<fs, unwritable, run, merged_data, cleaned_data, final_dataset,
                   config, verdict, samplerVars, main_dashboard, launched, exit_status>>

\* cleaned_merged_data.csv is written, replaced or removed while the
\* dashboard process lives
FileChanges ==
    /\ \E cleaned \in DashboardFiles \ {fs[CLEANED]} :
            fs' = [fs EXCEPT ![CLEANED] = cleaned]
    /\ UNCHANGED <<unwritable, run, merged_data, cleaned_data, final_dataset,
                   config, verdict, samplerVars, dashboardVars, exit_status>>

NextDashboard == LoadProcessedData \/ FileChanges

SpecDashboard == InitDashboard /\ [][NextDashboard]_vars

\* the three scripts, the dashboard a run of setup_and_run.py waits for, and
\* the requests made of that dashboard, in any interleaving
NextEntry ==
    ProcessData \/ SetupAndLaunch \/ ValidationMain \/ DashboardEnds \/ LoadProcessedData

SpecEntry == InitEntry /\ [][NextEntry]_vars

----------------------------------------------------------------------------
(* Properties of the cleaning pipeline *)

Did(step) == Contains(run.steps, step)

UniqueDates(t) ==
    \A i, j \in 1..Len(t.rows) :
        Column(t, "date")[i] = Column(t, "date")[j] => i = j

HasMissing(row, cols) == \E k \in 1..Len(row) : row[k] = MissingCell(cols[k])

FeatureNames(cols) == SelectSeq(cols, LAMBDA c : c \notin {"date", "cases"})

\* C1: when the two input tables have unique dates, the dates of the merged
\* table are exactly the dates present in both cases.csv and web_metrics.csv
C1_MergeIsIntersection ==
    (Did("merge") /\ UniqueDates(fs[CASES]) /\ UniqueDates(fs[WEB]))
        => DateSet(merged_data) = DateSet(fs[CASES]) \cap DateSet(fs[WEB])

\* C1 witness: a merge of inputs that share a date and each hold a date the
\* other lacks
C1_Witness ==
    /\ Did("merge")
    /\ DateSet(fs[CASES]) \ DateSet(fs[WEB]) # {}
    /\ DateSet(fs[WEB]) \ DateSet(fs[CASES]) # {}
    /\ DateSet(merged_data) # {}

\* C2: the standardized table, and cleaned_merged_data.csv once written by
\* the run, holds no missing value in any column of any row
C2_NoMissingInStandardized ==
    /\ Did("standardize") =>
          \A i \in 1..Len(final_dataset.rows) :
              ~HasMissing(final_dataset.rows[i], final_dataset.cols)
    /\ Did("save_cleaned") =>
          \A i \in 1..Len(fs[CLEANED].rows) :
              ~HasMissing(fs[CLEANED].rows[i], fs[CLEANED].cols)

\* the row standardization owes for row j of the cleaned table: its date, the
\* z-scores of its features, its cases
ExpectedRow(j) ==
    LET X == drop(cleaned_data, {"date", "cases"}) IN
    <<Column(cleaned_data, "date")[j]>>
        \o [p \in 1..Len(X.cols) |-> ZScore(X.rows[j][p], ColumnStats(X, p))]
        \o <<Column(cleaned_data, "cases")[j]>>

\* C3: the standardized table has as many rows as the cleaned table, and each
\* of its rows carries the date, the cases and the z-scored features of one
\* and the same cleaned row
C3_RowAligned ==
    Did("standardize") =>
        /\ Len(final_dataset.rows) = Len(cleaned_data.rows)
        /\ \A i \in 1..Len(final_dataset.rows) :
              \E j \in 1..Len(cleaned_data.rows) :
                  final_dataset.rows[i] = ExpectedRow(j)

\* C4: a run whose load, merge and drop-missing succeeded has written
\* merged_data_raw.csv (when that file can be written at all), whatever
\* happens to standardization and to the final write
C4_RawBackupBeforeStandardize ==
    (Did("clean") /\ CanWrite(unwritable, RAW)) => Did("save_raw")

\* C5: the merged_data_raw.csv a run writes is the table after the
\* drop-missing step: no row of it holds a missing value
C5_RawHasNoMissing ==
    Did("save_raw") =>
        /\ \A i \in 1..Len(fs[RAW].rows) : ~Contains(fs[RAW].rows[i], NA)
        /\ fs[RAW].rows = cleaned_data.rows


\* the order in which each implementation takes its steps
StepOrder(who) ==
    IF who = "DataProcessor"
    THEN <<"check", "load", "merge", "clean", "standardize", "save_raw", "save_cleaned">>
    ELSE <<"load", "merge", "clean", "save_raw", "standardize", "save_cleaned">>

\* C6: a cleaning run in which a step fails stops there: the steps it took
\* are those before the failed one and no other, it leaves
\* cleaned_merged_data.csv and both inputs as they were, merged_data_raw.csv
\* is the only file it may have written, and DataProcessor.process_data
\* returns False (the orchestrator exits with status 1)
C6_FailureAborts ==
    [][run'.failed # "none" =>
          /\ \E n \in 0..6 :
                /\ run'.steps = SubSeq(StepOrder(run'.who), 1, n)
                /\ run'.failed = StepOrder(run'.who)[n + 1]
          /\ \A name \in FileNames \ {RAW} : fs'[name] = fs[name]
          /\ fs'[RAW] # fs[RAW] => Contains(run'.steps, "save_raw")
          /\ run'.ret = (IF run'.who = "DataProcessor" THEN "False" ELSE "exit1")
      ]_vars

\* C6 witness: a run that wrote the raw backup and then failed on the final
\* write, with an older cleaned_merged_data.csv in the directory
C6_Witness ==
    /\ run.failed = "save_cleaned"
    /\ Did("save_raw")
    /\ fs[CLEANED] = OldCleaned
    /\ fs[RAW] # OldRaw

\* C7: the columns of the standardized table are date, then the feature
\* columns of the cleaned table in their order there, then cases
C7_ColumnOrder ==
    Did("standardize") =>
        final_dataset.cols = <<"date">> \o FeatureNames(cleaned_data.cols) \o <<"cases">>

\* C7 witness: a standardized table made from a merged table in which cases
\* is not the last column and two feature columns surround it
C7_Witness ==
    /\ Did("standardize")
    /\ cleaned_data.cols = <<"date", "page_views", "cases", "deaths">>

\* the standardized cells of column c of the final table that are not missing
StdCells(c) == SelectSeq(Column(final_dataset, c), LAMBDA z : z # NaN)

Nums(zs) == [i \in 1..Len(zs) |-> zs[i].num]
Squares(zs) == [i \in 1..Len(zs) |-> zs[i].num * zs[i].num]

\* the cells num / sqrt(den2) share one den2, so their mean is 0 exactly when
\* the nums sum to 0, and their population variance sum(num^2) / (n den2)
SameScale(zs) == \A i, j \in 1..Len(zs) : zs[i].den2 = zs[j].den2
MeanIsZero(zs) == SumSeq(Nums(zs)) = 0
StdIsOne(zs) == Len(zs) > 0 /\ SumSeq(Squares(zs)) = Len(zs) * zs[1].den2
StdIsZero(zs) == \A i \in 1..Len(zs) : zs[i].num = 0

IsConstant(xs) == \A i, j \in 1..Len(xs) : xs[i] = xs[j]

\* C8 as claimed: every feature column of the standardized table, a constant
\* one included, has mean 0 and population standard deviation 1
C8_UnitVarianceEveryColumn ==
    Did("standardize") =>
        \A k \in 1..Len(FeatureNames(cleaned_data.cols)) :
            LET zs == StdCells(FeatureNames(cleaned_data.cols)[k]) IN
            SameScale(zs) /\ MeanIsZero(zs) /\ StdIsOne(zs)

\* C8 amended: every feature column of the standardized table has mean 0;
\* its population standard deviation is 1 when the cleaned column holds two
\* different values, and 0 (every cell 0) when the cleaned column is constant
C8_UnitVarianceUnlessConstant ==
    Did("standardize") =>
        \A k \in 1..Len(FeatureNames(cleaned_data.cols)) :
            LET c == FeatureNames(cleaned_data.cols)[k]
                zs == StdCells(c)
            IN /\ Len(zs) = Len(cleaned_data.rows)
               /\ SameScale(zs)
               /\ MeanIsZero(zs)
               /\ IF IsConstant(Column(cleaned_data, c)) THEN StdIsZero(zs)
                  ELSE StdIsOne(zs)

\* C8 witness: a standardized table with a constant feature column beside one
\* that varies
C8_Witness ==
    /\ Did("standardize")
    /\ \E a, b \in SeqSet(FeatureNames(cleaned_data.cols)) :
          /\ IsConstant(Column(cleaned_data, a))
          /\ ~IsConstant(Column(cleaned_data, b))

----------------------------------------------------------------------------
(* Properties of the validators *)

\* the failure conditions of a file against a schema
Unparseable(file) == file.kind # "csv"
RequiredAbsent(file, settings) ==
    \E k \in 1..Len(settings.required_columns) :
        ~Contains(file.cols, settings.required_columns[k])
TooFewRows(file, settings) == Len(file.rows) < settings.min_row_count
BadDates(file) ==
    Contains(file.cols, "date") /\ Contains(Column(file, "date"), STR)
NonNumeric(file, numeric_columns) ==
    \E k \in 1..Len(numeric_columns) :
        /\ Contains(file.cols, numeric_columns[k])
        /\ Contains(Column(file, numeric_columns[k]), STR)

\* the configuration the validator works with
Loaded == IF config.kind = "absent" THEN _get_default_config ELSE config

\* C9: with a usable configuration, each validator returns False exactly when
\* its file is unparseable, lacks a required column, has too few rows, has a
\* date column that holds no dates, or has a designated numeric column that is
\* not numeric; and True otherwise
C9_ValidatorVerdict ==
    (config.kind # "malformed" /\ Loaded.has_settings) =>
        /\ verdict.op = "validate_covid_cases_file" =>
              (verdict.result = "False" <=>
                  \/ Unparseable(fs[CASES])
                  \/ RequiredAbsent(fs[CASES], Loaded.input)
                  \/ TooFewRows(fs[CASES], Loaded.input)
                  \/ BadDates(fs[CASES]))
        /\ verdict.op = "validate_web_metrics_file" =>
              (verdict.result = "False" <=>
                  \/ Unparseable(fs[WEB])
                  \/ RequiredAbsent(fs[WEB], Loaded.web)
                  \/ TooFewRows(fs[WEB], Loaded.web)
                  \/ BadDates(fs[WEB])
                  \/ NonNumeric(fs[WEB], Loaded.web.numeric_columns))

\* C10: with no configuration file, or one that holds JSON, each of the three
\* validation calls ends with a boolean, and with False when a data file it
\* reads is absent or unparseable
C10_ValidationReturnsBoolean ==
    (verdict.op # "none" /\ config.kind # "malformed") =>
        /\ verdict.result \in {"True", "False"}
        /\ (verdict.op # "validate_web_metrics_file" /\ Unparseable(fs[CASES]))
              => verdict.result = "False"
        /\ (verdict.op # "validate_covid_cases_file" /\ Unparseable(fs[WEB]))
              => verdict.result = "False"

\* C10 witness: no configuration file, cases.csv absent, web_metrics.csv
\* valid, and validate_all_input_files has answered False
C10_Witness ==
    /\ config.kind = "absent"
    /\ verdict = [op |-> "validate_all_input_files", result |-> "False"]
    /\ fs[CASES] = Absent
    /\ validate_web_metrics_file(Loaded, fs[WEB])

----------------------------------------------------------------------------
(* Properties of the sample data generators *)

BySampleDataGenerator == {i \in 1..Len(generated) : generated[i].who = "SampleDataGenerator"}
ByOrchestrator == {i \in 1..Len(generated) : generated[i].who = "DashboardOrchestrator"}

\* a generation that began on the generator state the seed gives
FromSeed(i) == generated[i].from = seed(random_seed)

SameFiles(i, j) ==
    /\ generated[i].cases = generated[j].cases
    /\ generated[i].web = generated[j].web

\* C11: any two invocations of generate_all_sample_data in one process, each
\* on a fresh generator or repeated on the same one, write the same
\* cases.csv and the same web_metrics.csv
C11_GeneratorDeterministic ==
    \A i \in BySampleDataGenerator, j \in BySampleDataGenerator : SameFiles(i, j)

\* C12: the influence behind every web_metrics.csv written is taken from the
\* case counts written to cases.csv by the same generation, and from the
\* seed the two generators write the same two files
C12_InfluenceFromWrittenCases ==
    /\ \A i \in 1..Len(generated) :
          generated[i].influence = Column(generated[i].cases, "cases")
    /\ \A i \in BySampleDataGenerator, j \in ByOrchestrator :
          FromSeed(i) => SameFiles(i, j)

----------------------------------------------------------------------------
(* Properties of the three scripts *)

Ended(script) == exit_status.script = script

\* the last pipeline run was one of setup_and_run.py that launched
Launched == run.who = "setup_and_run.py" /\ Contains(run.steps, "launch")

CleaningSteps == {"load", "merge", "save_raw", "standardize", "save_cleaned"}

\* C13: a script whose cleaning, validation or file verification failed
\* ended with a status other than 0: datacleaner.py when process_data
\* returned False, data_validation_utils.py when the validation did not
\* pass, setup_and_run.py when cleaning or verification failed
C13_FailureExitsNonZero ==
    /\ (Ended("datacleaner.py") /\ run.ret = "False") => exit_status.status # 0
    /\ (Ended("data_validation_utils.py") /\ verdict.result = "False")
          => exit_status.status # 0
    /\ (Ended("setup_and_run.py") /\ run.who = "setup_and_run.py"
           /\ run.failed \in CleaningSteps \cup {"verify"})
          => exit_status.status # 0

\* C14: after a run of datacleaner.py that returned True, and after a run of
\* setup_and_run.py that reached the launch, the two output files are what
\* cleaning the input files now in the directory writes
C14_OutputsFromCurrentInputs ==
    /\ (run.who = "DataProcessor" /\ run.ret = "True") =>
          LET again == process_data(fs, {}) IN
          /\ again.run.ret = "True"
          /\ \A name \in SeqSet(output_files) : fs[name] = again.fs[name]
    /\ Launched =>
          LET again == process_and_clean_data(fs, {}) IN
          /\ again.run.ret = "return"
          /\ \A name \in SeqSet(output_files) : fs[name] = again.fs[name]

\* a step of setup_and_run.py up to its launch or its exit: the only steps
\* that launch, and the only ones that leave status 1 of that script
SetupStep ==
    \/ launched' = launched + 1
    \/ /\ exit_status' = Exit("setup_and_run.py", 1)
       /\ run'.who = "setup_and_run.py"
       /\ dashboard' = dashboard

\* C16: a run of setup_and_run.py either reaches the launch, and then the
\* dashboard script, both inputs and both outputs exist, or ends with status
\* 1 without launching; it creates the samples only if an input file was
\* missing and cleans only if an output file was missing
C16_LaunchOnlyWhenComplete ==
    [][SetupStep =>
          /\ \/ /\ launched' = launched + 1
                /\ Launched'
                /\ main_dashboard'
                /\ \A name \in FileNames : exists(fs', name)
             \/ /\ launched' = launched
                /\ ~Launched'
                /\ exit_status' = Exit("setup_and_run.py", 1)
          /\ Contains(run'.steps, "create")
                => \E name \in SeqSet(input_files) : ~exists(fs, name)
          /\ Contains(run'.steps, "process_and_clean_data")
                => \E name \in SeqSet(output_files) : ~exists(fs, name)]_vars

\* a launch reached after the samples were created and then cleaned
C16_Witness ==
    /\ Launched
    /\ launched > 0
    /\ Contains(run.steps, "create")
    /\ Contains(run.steps, "process_and_clean_data")

----------------------------------------------------------------------------
(* Properties of the dashboard process *)

\* a step that serves one request
Served == dashboard'.requests = dashboard.requests + 1

\* once a request has succeeded, a request returns the cached table, reads
\* nothing and leaves the cache alone
Memoized ==
    (Served /\ dashboard.cached) =>
        /\ dashboard'.returned = dashboard.cache
        /\ dashboard'.reads = dashboard.reads
        /\ dashboard'.cache = dashboard.cache
        /\ dashboard'.session = "running"

\* a request whose load fails halts the session and caches nothing
FailureCachesNothing ==
    (Served /\ dashboard'.session = "halted") => ~dashboard'.cached

\* the first successful request caches the table it parsed from the file
FirstSuccessCached ==
    (Served /\ ~dashboard.cached /\ dashboard'.session = "running") =>
        /\ dashboard'.cached
        /\ dashboard'.cache = read_csv(fs[CLEANED])
        /\ dashboard'.returned = dashboard'.cache

\* C15 as stated: over all requests of one process the file is read from
\* disk at most once; after the first successful request every request
\* returns the table that one parsed without reading again, whatever the
\* file now holds; a failing request halts the session and caches nothing
C15_ReadAtMostOnce ==
    [][Served => (dashboard'.reads <= 1 /\ Memoized /\ FailureCachesNothing)]_vars

\* C15 amended: over all requests of one process the file is parsed into a
\* table at most once, and not read at all after that; until a request
\* succeeds every request reads the file anew; the rest as stated
C15_LoadedAtMostOnce ==
    [][Served => (dashboard'.loads <= 1 /\ Memoized /\ FailureCachesNothing
                   /\ FirstSuccessCached)]_vars

\* a request served from the cache after the file changed on disk, the
\* process having read the file more than once before the load succeeded
C15_Witness ==
    /\ dashboard.cached
    /\ dashboard.requests > dashboard.loads
    /\ dashboard.returned = dashboard.cache
    /\ dashboard.session = "running"
    /\ dashboard.reads > 1
    /\ (~CanRead(fs[CLEANED]) \/ read_csv(fs[CLEANED]) # dashboard.cache)

====
